---- MODULE Spec2Model ----
(***************************************************************************)
(* Model of github.com/deadelus/go-clean-app: the graceful-shutdown        *)
(* registry (lifecycle.Gracefull) and the cancellation source that         *)
(* application.New builds around it.                                       *)
(*                                                                         *)
(* Goroutines of the model:                                                *)
(*   - producers, calling Gracefull.Register (lifecycle.go 43-49);         *)
(*   - the shutdown goroutine started by NewGracefullShutdown              *)
(*     (lifecycle.go 34-37) which runs gracefullAll (52-66);               *)
(*   - one goroutine per hook, running gracefullOne (69-79);               *)
(*   - waiters, receiving from the channel returned by Done() (23-25);     *)
(*   - the signal listener of application.New (part_003 63-71), or, when   *)
(*     the registry is built directly on a context as the lifecycle tests  *)
(*     do, the caller that holds the cancel function.                      *)
(***************************************************************************)
EXTENDS Integers, FiniteSets

\* ------------------------------------------------------------------ bounds
NumNames == 2
NumProducers == 2
NumWaiters == 2
MaxCancels == 2
MaxSignals == 2
MaxRecv == 2

Names == 1..NumNames
Producers == 1..NumProducers
Waiters == 1..NumWaiters

\* A callback is an opaque func() error: it is identified by the Register
\* call that passed it, and what it returns is decided when it runs.
Callbacks == Producers
Results == {"ok", "err"}
\* The zero value of a map lookup / "no such key".
NoFn == 0
NoArg == <<0, NoFn>>
\* No Register call has returned yet.
NoRet == [val |-> "none", line |-> 0]

VARIABLES
    mode,          \* "engine": built by application.New; "bare": NewGracefullShutdown(ctx), caller holds cancel
    proc,          \* "running" | "killed" (default signal action) | "crashed" (runtime fatal error)
    ctxCancelled,  \* ctx.Done() is closed
    cancelCalls,   \* number of explicit cancel() calls made by the caller (bare mode)
    sigs,          \* number of SIGINT/SIGTERM delivered to the process
    sigChan,       \* number of signals buffered in c (capacity 1)
    notifyOn,      \* c is registered with signal.Notify
    pcListener,    \* position of the listener goroutine of New
    functions,     \* g.functions : name -> callback (NoFn when absent)
    pcReg,         \* position of each producer: before, inside ("write") or after its Register call
    regArg,        \* arguments of the Register call in progress
    regRet,        \* result of the Register call that returned last, with the returning line
    raced,         \* producers whose call in progress overlapped another goroutine's map write
    pcAll,         \* position of the shutdown goroutine
    pending,       \* entries the range loop of gracefullAll has still to produce
    wg,            \* sync.WaitGroup counter
    hookPc,        \* per name: position of its gracefullOne goroutine
    hookFn,        \* per name: callback captured by the loop (v := gracefullFunc)
    hookLog,       \* per name: outcome written to the log by gracefullOne ("success" | "error")
    calls,         \* per name: number of invocations of its callback
    rounds,        \* number of executions of gracefullAll
    sent,          \* number of values delivered on g.done
    waiter,        \* per waiter: "idle" | "waiting" (blocked in <-g.Done())
    recv,          \* per waiter: number of completed receives
    atCancel,      \* names registered at the moment the context was cancelled
    eng,           \* the fields of the Engine under construction / returned by New
    newSt,         \* the call of New: position, error result, cause of a panic
    hist,          \* what the options passed to New asked for, and the number of loggers built
    otherCancelled \* a context not derived from New's ctx (argument of SetContext) is cancelled

lifeVars == <<mode, proc, ctxCancelled, cancelCalls, sigs, sigChan, notifyOn, pcListener,
              functions, pcReg, regArg, regRet, raced, pcAll, pending, wg,
              hookPc, hookFn, hookLog, calls, rounds, sent, waiter, recv, atCancel>>
engVars == <<eng, newSt, hist, otherCancelled>>
vars == <<lifeVars, engVars>>

sigVars == <<sigs, sigChan, notifyOn, pcListener>>
regVars == <<functions, pcReg, regArg, regRet, raced>>
hookVars == <<hookPc, hookFn, hookLog, calls>>
waitVars == <<waiter, recv>>

Registered(fns) == {n \in Names : fns[n] # NoFn}

\* ------------------------------------------------------------ engine values
MaxLoggers == 2
\* The names under which the logger options register the close function.
ZapName == 1
ZapCliName == 2
\* String arguments of the options: empty and non-empty.
Strs == {"", "a"}
\* e.gracefull: the registry built by New, or a Lifecycle put in its place
\* whose Register returns nil or an error (mockLifecycle).
Lifecycles == {"real", "mock_nil", "mock_err"}
NoLogger == [kind |-> "none", id |-> 0]
Loggers == [kind : {"zap", "cli"}, id : 1..MaxLoggers]
\* A context is known by the cancellable context it derives from and by
\* whether it carries the value "cli_mode" = true.
Contexts == [root : {"new", "other"}, cli : BOOLEAN]
NewCtx == [root |-> "new", cli |-> FALSE]
OtherCtx == [root |-> "other", cli |-> FALSE]
IsCancelled_Shared(c) == ctxCancelled \/ otherCancelled
IsCancelled(c) == IF c.root = "new" THEN ctxCancelled ELSE otherCancelled
WithValue_Same(c) == c
WithValue_Detached(c) == [root |-> "other", cli |-> TRUE]
WithValue(c) == [c EXCEPT !.cli = TRUE]

ZeroEngine ==
    [appName |-> "", appVersion |-> "", appEnv |-> "", appDebug |-> FALSE,
     ctx |-> NewCtx, gracefull |-> "real", logger |-> NoLogger]
Default_Keep(v, d) == v
Default(v, d) == IF v = "" THEN d ELSE v
ApplyDefaultsTo(e) ==
    [e EXCEPT !.appName = Default(@, "application"),
              !.appVersion = Default(@, "0.1.0"),
              !.appEnv = Default(@, "development")]
\* The constructor NewZapLogger has not been called.
NoCtorArgs == <<>>
NoHist == [name |-> "", version |-> "", env |-> "", cli |-> FALSE, built |-> 0,
           ctor |-> NoCtorArgs]

EngineName == eng.appName
EngineVersion == eng.appVersion
EngineEnv == eng.appEnv
EngineDebug == eng.appDebug
EngineContext == eng.ctx
EngineCLIMode == eng.ctx.cli = TRUE
EngineLogger == eng.logger

\* ------------------------------------------------------------------- Init
\* The registry and the goroutines as NewGracefullShutdown leaves them: the
\* map is empty, done is an unbuffered channel, the goroutines are parked.
InitLifecycle ==
    /\ mode \in {"engine", "bare"}
    /\ proc = "running"
    /\ ctxCancelled = FALSE
    /\ cancelCalls = 0
    /\ sigs = 0
    /\ sigChan = 0
    /\ notifyOn = (mode = "engine")
    /\ pcListener = IF mode = "engine" THEN "select" ELSE "none"
    /\ functions = [n \in Names |-> NoFn]
    /\ pcReg = [p \in Producers |-> "idle"]
    /\ regArg = [p \in Producers |-> NoArg]
    /\ regRet = NoRet
    /\ raced = {}
    /\ pcAll = "waitctx"
    /\ pending = {}
    /\ wg = 0
    /\ hookPc = [n \in Names |-> "none"]
    /\ hookFn = [n \in Names |-> NoFn]
    /\ hookLog = [n \in Names |-> "none"]
    /\ calls = [n \in Names |-> 0]
    /\ rounds = 0
    /\ sent = 0
    /\ waiter = [w \in Waiters |-> "idle"]
    /\ recv = [w \in Waiters |-> 0]
    /\ atCancel = {}

\* State after construction: New without options (or NewGracefullShutdown)
\* has returned.
Init ==
    /\ InitLifecycle
    /\ eng = ApplyDefaultsTo(ZeroEngine)
    /\ newSt = [pc |-> "returned", err |-> "nil", fault |-> "none"]
    /\ hist = NoHist
    /\ otherCancelled = FALSE

\* part_003 58-76: New has made ctx, registered c, started the listener and
\* built the engine literal; the option loop is about to start.
NewInit ==
    /\ mode = "engine"
    /\ InitLifecycle
    /\ eng = ZeroEngine
    /\ newSt = [pc |-> "options", err |-> "none", fault |-> "none"]
    /\ hist = NoHist
    /\ otherCancelled = FALSE

\* ---------------------------------------------------- cancellation source
\* context.WithCancel: the first cancel closes ctx.Done(), later ones are
\* no-ops. atCancel records the registry contents at that moment.
CancelCtx ==
    /\ ctxCancelled' = TRUE
    /\ atCancel' = IF ctxCancelled THEN atCancel ELSE Registered(functions)

\* lifecycle_test.go 37, 53: the caller of NewGracefullShutdown calls cancel().
Cancel ==
    /\ proc = "running"
    /\ mode = "bare"
    /\ cancelCalls < MaxCancels
    /\ cancelCalls' = cancelCalls + 1
    /\ CancelCtx
    /\ UNCHANGED <<engVars, mode, proc, sigVars, regVars, pcAll, pending, wg, hookVars,
                   rounds, sent, waitVars>>

\* A SIGINT or SIGTERM reaches the process. While c is registered
\* (signal.Notify, part_003 61) the signal is put in c without blocking and is
\* dropped when c is full (capacity 1, part_003 60). Once signal.Stop(c) has
\* run no channel asks for the signal and its default action ends the process.
\* NotifySend is what c holds after the send: one signal, whether c was empty
\* or full.
NotifySend_Unbuffered(buf) == {buf, 1}
NotifySend(buf) == {1}

Signal ==
    /\ proc = "running"
    /\ mode = "engine"
    /\ sigs < MaxSignals
    /\ sigs' = sigs + 1
    /\ IF notifyOn
          THEN /\ sigChan' \in NotifySend(sigChan)
               /\ proc' = proc
          ELSE /\ sigChan' = sigChan
               /\ proc' = "killed"
    /\ UNCHANGED <<engVars, mode, ctxCancelled, cancelCalls, notifyOn, pcListener, regVars,
                   pcAll, pending, wg, hookVars, rounds, sent, waitVars, atCancel>>

\* part_003 65-67: the case of the receive runs signal.Stop(c) first and
\* cancel() second.
AfterRecv_CancelFirst == "cancel"
AfterRecv == "stop"

\* part_003 64-65: select { case <-c: ... }. The other case, <-ctx.Done()
\* (part_003 68), cannot be taken first: cancel is held by this goroutine
\* alone and is called only after a receive from c.
ListenerRecv ==
    /\ proc = "running"
    /\ pcListener = "select"
    /\ sigChan > 0
    /\ sigChan' = sigChan - 1
    /\ pcListener' = AfterRecv
    /\ UNCHANGED <<engVars, mode, proc, ctxCancelled, cancelCalls, sigs, notifyOn, regVars,
                   pcAll, pending, wg, hookVars, rounds, sent, waitVars, atCancel>>

\* part_003 66: signal.Stop(c)
ListenerStop ==
    /\ proc = "running"
    /\ pcListener = "stop"
    /\ notifyOn' = FALSE
    /\ pcListener' = "cancel"
    /\ UNCHANGED <<engVars, mode, proc, ctxCancelled, cancelCalls, sigs, sigChan, regVars,
                   pcAll, pending, wg, hookVars, rounds, sent, waitVars, atCancel>>

\* part_003 67: cancel(), then the goroutine returns.
ListenerCancel ==
    /\ proc = "running"
    /\ pcListener = "cancel"
    /\ CancelCtx
    /\ pcListener' = "exited"
    /\ UNCHANGED <<engVars, mode, proc, cancelCalls, sigs, sigChan, notifyOn, regVars,
                   pcAll, pending, wg, hookVars, rounds, sent, waitVars>>

\* --------------------------------------------------------------- Register
\* lifecycle.go 44: _, exists := g.functions[name]
Exists_Never(fns, n) == FALSE
Exists(fns, n) == fns[n] # NoFn

\* lifecycle.go 45, 48: both return statements return nil.
RegisterResult_ErrOnDup(exists) == IF exists THEN "error" ELSE "nil"
RegisterResult_ErrAlways(exists) == "error"
RegisterResult(exists) == "nil"

\* Register takes no lock (lifecycle.go 17-20 holds no mutex): a map write
\* that is concurrent with another goroutine's access of g.functions is a data
\* race. The Go runtime may detect it and end the process ("fatal error:
\* concurrent map writes" / "concurrent map iteration and map write"); if it
\* does not, the write may land or be lost.
RaceOutcomes == {"stored", "lost", "crash"}
WriteOutcomes(racy) == IF racy THEN RaceOutcomes ELSE {"stored"}
MapRace(p) ==
    \/ p \in raced
    \/ \E q \in Producers \ {p} : pcReg[q] = "write"
    \/ ctxCancelled /\ pcAll \in {"waitctx", "range"}

\* A name is in use when the map holds it or a call in progress passes it.
NameUsed(m) == functions[m] # NoFn \/ \E q \in Producers : regArg[q][1] = m

\* lifecycle.go 43-46: entry and the lookup; a present name returns at once.
\* Each producer is a goroutine that calls Register once. Producers and names
\* are interchangeable, so producers are numbered in the order in which they
\* call and names in the order in which they are first used.
RegisterCall(p, n) ==
    /\ proc = "running"
    /\ pcReg[p] = "idle"
    /\ \A q \in Producers : q < p => pcReg[q] # "idle"
    /\ \A m \in Names : m < n => NameUsed(m)
    /\ IF Exists(functions, n)
          THEN /\ pcReg' = [pcReg EXCEPT ![p] = "done"]
               /\ regRet' = [val |-> RegisterResult(TRUE), line |-> 45]
               /\ UNCHANGED regArg
          ELSE /\ pcReg' = [pcReg EXCEPT ![p] = "write"]
               /\ regArg' = [regArg EXCEPT ![p] = <<n, p>>]
               /\ UNCHANGED regRet
    /\ UNCHANGED <<engVars, mode, proc, ctxCancelled, cancelCalls, sigVars, functions, raced,
                   pcAll, pending, wg, hookVars, rounds, sent, waitVars, atCancel>>

\* lifecycle.go 47-48: g.functions[name] = gracefull; return nil. An entry
\* created while the range loop runs may be produced by it or skipped.
RegisterWrite(p) ==
    /\ proc = "running"
    /\ pcReg[p] = "write"
    /\ LET n == regArg[p][1]
           cb == regArg[p][2]
       IN \E o \in WriteOutcomes(MapRace(p)) :
            IF o = "crash"
               THEN /\ proc' = "crashed"
                    /\ UNCHANGED <<regVars, pending>>
               ELSE /\ proc' = proc
                    /\ functions' = IF o = "stored" THEN [functions EXCEPT ![n] = cb]
                                                    ELSE functions
                    /\ pending' \in IF o = "stored" /\ pcAll = "range" /\ functions[n] = NoFn
                                       THEN {pending, pending \cup {n}}
                                       ELSE {pending}
                    /\ pcReg' = [pcReg EXCEPT ![p] = "done"]
                    /\ regArg' = [regArg EXCEPT ![p] = NoArg]
                    /\ regRet' = [val |-> RegisterResult(FALSE), line |-> 48]
                    /\ raced' = (raced \ {p}) \cup {q \in Producers \ {p} : pcReg[q] = "write"}
    /\ UNCHANGED <<engVars, mode, ctxCancelled, cancelCalls, sigVars, pcAll, wg, hookVars,
                   rounds, sent, waitVars, atCancel>>

\* ------------------------------------------------------ shutdown goroutine
\* lifecycle.go 35: the receive from ctx.Done() returns once ctx is cancelled.
CtxIsDone_Always == TRUE
CtxIsDone == ctxCancelled

\* lifecycle.go 59: the go statement starts gracefullOne in a goroutine of its
\* own, so the loop goes on whatever the hooks already started are doing.
LoopCanSpawn_Sequential(cnt) == cnt = 0
LoopCanSpawn(cnt) == TRUE

\* lifecycle.go 35-36: <-ctx.Done(); life.gracefullAll(). The range statement
\* (line 56) starts over the entries the map holds now.
AwaitCtx ==
    /\ proc = "running"
    /\ pcAll = "waitctx"
    /\ CtxIsDone
    /\ pcAll' = "range"
    /\ pending' = Registered(functions)
    /\ rounds' = rounds + 1
    /\ UNCHANGED <<engVars, mode, proc, ctxCancelled, cancelCalls, sigVars, regVars, wg,
                   hookVars, sent, waitVars, atCancel>>

\* lifecycle.go 56: the loop ends when the iteration has no entry left.
RangeDone_SkipLast(pend) == Cardinality(pend) <= 1
RangeDone(pend) == pend = {}

\* lifecycle.go 56: range over a Go map produces the entries left in an
\* order that is not specified: any of them may come next.
RangeNext_InOrder(pend) == {n \in pend : \A m \in pend : n <= m}
RangeNext(pend) == pend

\* lifecycle.go 56-59: one iteration, in an order the map chooses:
\* wg.Add(1); k, v := name, gracefullFunc; go g.gracefullOne(wg, k, v)
RangeStep(n) ==
    /\ proc = "running"
    /\ pcAll = "range"
    /\ n \in RangeNext(pending)
    /\ LoopCanSpawn(wg)
    /\ pending' = pending \ {n}
    /\ wg' = wg + 1
    /\ hookPc' = [hookPc EXCEPT ![n] = "spawned"]
    /\ hookFn' = [hookFn EXCEPT ![n] = functions[n]]
    /\ UNCHANGED <<engVars, mode, proc, ctxCancelled, cancelCalls, sigVars, regVars, pcAll,
                   hookLog, calls, rounds, sent, waitVars, atCancel>>

\* lifecycle.go 60-61: the loop is over, the goroutine reaches wg.Wait().
RangeEnd ==
    /\ proc = "running"
    /\ pcAll = "range"
    /\ RangeDone(pending)
    /\ pcAll' = "wait"
    /\ pending' = {}
    /\ UNCHANGED <<engVars, mode, proc, ctxCancelled, cancelCalls, sigVars, regVars, wg,
                   hookVars, rounds, sent, waitVars, atCancel>>

\* lifecycle.go 61: wg.Wait() returns when the counter is zero.
WgWaitReady_NoBarrier(cnt) == TRUE
WgWaitReady(cnt) == cnt = 0

\* lifecycle.go 61-65: past the barrier, the goroutine blocks in g.done <- struct{}{}.
WgWait ==
    /\ proc = "running"
    /\ pcAll = "wait"
    /\ WgWaitReady(wg)
    /\ pcAll' = "send"
    /\ UNCHANGED <<engVars, mode, proc, ctxCancelled, cancelCalls, sigVars, regVars, pending,
                   wg, hookVars, rounds, sent, waitVars, atCancel>>

\* lifecycle.go 65-66, 36-37: after the send gracefullAll returns and the
\* goroutine ends.
AfterSend_Loop == "waitctx"
AfterSend == "exited"

\* lifecycle.go 65 with a receiver: done is unbuffered (line 31), so the one
\* value sent is handed to exactly one goroutine blocked in <-g.Done().
Deliver(w) ==
    /\ proc = "running"
    /\ pcAll = "send"
    /\ waiter[w] = "waiting"
    /\ sent' = sent + 1
    /\ waiter' = [waiter EXCEPT ![w] = "idle"]
    /\ recv' = [recv EXCEPT ![w] = recv[w] + 1]
    /\ pcAll' = AfterSend
    /\ UNCHANGED <<engVars, mode, proc, ctxCancelled, cancelCalls, sigVars, regVars, pending,
                   wg, hookVars, rounds, atCancel>>

\* ---------------------------------------------------------- hook goroutines
\* lifecycle.go 72: gracefullFunc() is called.
HookInvoke(n) ==
    /\ proc = "running"
    /\ hookPc[n] = "spawned"
    /\ hookPc' = [hookPc EXCEPT ![n] = "running"]
    /\ calls' = [calls EXCEPT ![n] = calls[n] + 1]
    /\ UNCHANGED <<engVars, mode, proc, ctxCancelled, cancelCalls, sigVars, regVars, pcAll,
                   pending, wg, hookFn, hookLog, rounds, sent, waitVars, atCancel>>

\* lifecycle.go 72-78: the line gracefullOne logs for the hook's result.
HookLog(res) == IF res = "err" THEN "error" ELSE "success"

\* lifecycle.go 70: defer wg.Done(), on both return paths.
WgDone_AbortOnErr(cnt, res) == IF res = "err" THEN 0 ELSE cnt - 1
WgDone_SkipOnErr(cnt, res) == IF res = "err" THEN cnt ELSE cnt - 1
WgDone(cnt, res) == cnt - 1

\* lifecycle.go 72-79, 70: the hook returns nil or an error, its outcome is
\* logged and the deferred wg.Done() runs. A hook that blocks stays "running".
HookReturn(n, res) ==
    /\ proc = "running"
    /\ hookPc[n] = "running"
    /\ hookPc' = [hookPc EXCEPT ![n] = "returned"]
    /\ hookLog' = [hookLog EXCEPT ![n] = HookLog(res)]
    /\ wg' = WgDone(wg, res)
    /\ UNCHANGED <<engVars, mode, proc, ctxCancelled, cancelCalls, sigVars, regVars, pcAll,
                   pending, hookFn, calls, rounds, sent, waitVars, atCancel>>

\* ------------------------------------------------------------------ waiters
\* lifecycle.go 23-25 and the caller's <-g.Done(): the goroutine blocks in
\* the receive until a sender hands it a value. Waiters are interchangeable
\* and are numbered in the order of their first receive.
WaitDone(w) ==
    /\ proc = "running"
    /\ waiter[w] = "idle"
    /\ recv[w] < MaxRecv
    /\ \A v \in Waiters : v < w => (waiter[v] = "waiting" \/ recv[v] > 0)
    /\ waiter' = [waiter EXCEPT ![w] = "waiting"]
    /\ UNCHANGED <<engVars, mode, proc, ctxCancelled, cancelCalls, sigVars, regVars, pcAll,
                   pending, wg, hookVars, rounds, sent, recv, atCancel>>

\* ------------------------------------------------------------------ engine
\* option.go 32-36
AppName(v) ==
    /\ proc = "running"
    /\ newSt.pc = "options"
    /\ eng' = [eng EXCEPT !.appName = v]
    /\ hist' = [hist EXCEPT !.name = v]
    /\ UNCHANGED <<lifeVars, newSt, otherCancelled>>

\* option.go 22-26
Version(v) ==
    /\ proc = "running"
    /\ newSt.pc = "options"
    /\ eng' = [eng EXCEPT !.appVersion = v]
    /\ hist' = [hist EXCEPT !.version = v]
    /\ UNCHANGED <<lifeVars, newSt, otherCancelled>>

\* option.go 52-56
Env(v) ==
    /\ proc = "running"
    /\ newSt.pc = "options"
    /\ eng' = [eng EXCEPT !.appEnv = v]
    /\ hist' = [hist EXCEPT !.env = v]
    /\ UNCHANGED <<lifeVars, newSt, otherCancelled>>

\* option.go 42-46
Debug(b) ==
    /\ proc = "running"
    /\ newSt.pc = "options"
    /\ eng' = [eng EXCEPT !.appDebug = b]
    /\ UNCHANGED <<lifeVars, newSt, hist, otherCancelled>>

\* option.go 12-16: e.ctx = context.WithValue(e.ctx, "cli_mode", true)
WithCLIMode ==
    /\ proc = "running"
    /\ newSt.pc = "options"
    /\ eng' = [eng EXCEPT !.ctx = WithValue(@)]
    /\ hist' = [hist EXCEPT !.cli = TRUE]
    /\ UNCHANGED <<lifeVars, newSt, otherCancelled>>

\* part_003 155-157: e.gracefull = l, called on the engine under construction
\* or on the engine New returned.
SetGracefull(l) ==
    /\ proc = "running"
    /\ newSt.pc # "panicked"
    /\ eng' = [eng EXCEPT !.gracefull = l]
    /\ UNCHANGED <<lifeVars, newSt, hist, otherCancelled>>

\* application_test.go 108-133: an option of the caller's that puts another
\* Lifecycle in the place of the registry.
OptionSetGracefull(l) == newSt.pc = "options" /\ SetGracefull(l)

\* part_003 150-152: e.logger = l, called on the engine New returned.
SetLogger(l) ==
    /\ proc = "running"
    /\ newSt.pc = "returned"
    /\ eng' = [eng EXCEPT !.logger = l]
    /\ UNCHANGED <<lifeVars, newSt, hist, otherCancelled>>

\* part_001 23-25, 32; cli-logger.go 22-24, 33: panic(err) ends New.
OnFailure_Continue == "options"
OnFailure == "panicked"

\* The closure closeLogger of a logger, as a callback of the registry.
CloseFn_None(l) == NoFn
CloseFn(l) == NumProducers + l.id
LoggerCloses == {CloseFn(l) : l \in Loggers}

\* lifecycle.go 43-48 run by the goroutine that is in New. The lookup and
\* the write are not guarded: they race with the range of the shutdown
\* goroutine when the context is already cancelled.
EngineRegister(n, f) ==
    /\ IF Exists(functions, n)
          THEN /\ regRet' = [val |-> RegisterResult(TRUE), line |-> 45]
               /\ UNCHANGED <<proc, functions, pending>>
          ELSE \E o \in WriteOutcomes(ctxCancelled /\ pcAll \in {"waitctx", "range"}) :
                 IF o = "crash"
                    THEN /\ proc' = "crashed"
                         /\ UNCHANGED <<functions, pending, regRet>>
                    ELSE /\ proc' = proc
                         /\ functions' = IF o = "stored" THEN [functions EXCEPT ![n] = f]
                                                         ELSE functions
                         /\ pending' \in IF o = "stored" /\ pcAll = "range" /\ f # NoFn
                                            THEN {pending, pending \cup {n}}
                                            ELSE {pending}
                         /\ regRet' = [val |-> RegisterResult(FALSE), line |-> 48]
    /\ UNCHANGED <<mode, ctxCancelled, cancelCalls, sigVars, pcReg, regArg, raced,
                   pcAll, wg, hookVars, rounds, sent, waitVars, atCancel>>

\* part_001 16-21: NewZapLogger(e.Name(), e.Version(), e.Env(), e.Debug()), read
\* from the engine as it is when the option runs. cli-logger.go 17-21 builds
\* its logger from a fixed configuration.
CtorArgs(kind) ==
    IF kind = "zap" THEN <<EngineName, EngineVersion, EngineEnv>> ELSE hist.ctor

\* part_001 14-35 and cli-logger.go 14-36: build the logger (out is what the
\* constructor returns), panic on its error, e.SetLogger(logger), Register the
\* close function under the option's name, panic on Register's error.
LoggerOption(kind, name, out) ==
    /\ proc = "running"
    /\ newSt.pc = "options"
    /\ hist.built < MaxLoggers
    /\ IF out = "fail"
          THEN /\ newSt' = [newSt EXCEPT !.pc = OnFailure, !.fault = "ctor"]
               /\ hist' = [hist EXCEPT !.ctor = CtorArgs(kind)]
               /\ UNCHANGED <<lifeVars, eng>>
          ELSE LET l == [kind |-> kind, id |-> hist.built + 1]
               IN /\ eng' = [eng EXCEPT !.logger = l]
                  /\ hist' = [hist EXCEPT !.built = @ + 1, !.ctor = CtorArgs(kind)]
                  /\ CASE eng.gracefull = "mock_err" ->
                             /\ newSt' = [newSt EXCEPT !.pc = OnFailure, !.fault = "register"]
                             /\ UNCHANGED lifeVars
                       [] eng.gracefull = "mock_nil" ->
                             UNCHANGED <<lifeVars, newSt>>
                       [] eng.gracefull = "real" ->
                             /\ EngineRegister(name, CloseFn(l))
                             /\ UNCHANGED newSt
    /\ UNCHANGED otherCancelled

SetZapLogger(out) == LoggerOption("zap", ZapName, out)
SetZapLoggerForCLI(out) == LoggerOption("cli", ZapCliName, out)

\* part_003 82-94: the defaults, then return engine, nil.
ApplyDefaults ==
    /\ proc = "running"
    /\ newSt.pc = "options"
    /\ eng' = ApplyDefaultsTo(eng)
    /\ newSt' = [newSt EXCEPT !.pc = "returned", !.err = "nil"]
    /\ UNCHANGED <<lifeVars, hist, otherCancelled>>

\* part_003 160-162: e.ctx = ctx
SetContextOf_Rebuild(e, c) == [e EXCEPT !.ctx = c, !.gracefull = "mock_nil"]
SetContextOf(e, c) == [e EXCEPT !.ctx = c]
\* application_test.go 90-101: the caller passes a context of its own.
SetContext(c) ==
    /\ proc = "running"
    /\ newSt.pc = "returned"
    /\ eng' = SetContextOf(eng, c)
    /\ UNCHANGED <<lifeVars, newSt, hist, otherCancelled>>

\* The owner of the context passed to SetContext cancels it.
CancelOther ==
    /\ proc = "running"
    /\ eng.ctx.root = "other"
    /\ ~otherCancelled
    /\ otherCancelled' = TRUE
    /\ UNCHANGED <<lifeVars, eng, newSt, hist>>

\* ------------------------------------------------------------ specifications
Next ==
    \/ Cancel
    \/ Signal
    \/ ListenerRecv
    \/ ListenerStop
    \/ ListenerCancel
    \/ \E p \in Producers, n \in Names : RegisterCall(p, n)
    \/ \E p \in Producers : RegisterWrite(p)
    \/ AwaitCtx
    \/ \E n \in Names : RangeStep(n)
    \/ RangeEnd
    \/ WgWait
    \/ \E w \in Waiters : Deliver(w)
    \/ \E n \in Names : HookInvoke(n)
    \/ \E n \in Names, res \in Results : HookReturn(n, res)
    \/ \E w \in Waiters : WaitDone(w)

Spec == Init /\ [][Next]_vars

\* The Go scheduler runs every goroutine that can take a step: the listener,
\* the shutdown goroutine, the hook goroutines and a send with a receiver
\* waiting all make progress. Fairness of HookReturn is the hypothesis that
\* every hook that is invoked returns. Producers, waiters, signals and the
\* caller's cancel are the environment and need not act.
Fairness ==
    /\ WF_vars(ListenerRecv)
    /\ WF_vars(ListenerStop)
    /\ WF_vars(ListenerCancel)
    /\ WF_vars(AwaitCtx)
    /\ WF_vars(\E n \in Names : RangeStep(n))
    /\ WF_vars(RangeEnd)
    /\ WF_vars(WgWait)
    /\ WF_vars(\E w \in Waiters : Deliver(w))
    /\ \A n \in Names : WF_vars(HookInvoke(n))
    /\ \A n \in Names : WF_vars(\E res \in Results : HookReturn(n, res))

FairSpec == Spec /\ Fairness

\* The call of New with any options, and the signals and the listener that
\* run beside it.
NewNext ==
    \/ \E v \in Strs : AppName(v)
    \/ \E v \in Strs : Version(v)
    \/ \E v \in Strs : Env(v)
    \/ \E b \in BOOLEAN : Debug(b)
    \/ WithCLIMode
    \/ \E l \in Lifecycles \ {"real"} : OptionSetGracefull(l)
    \/ \E out \in {"ok", "fail"} : SetZapLogger(out)
    \/ \E out \in {"ok", "fail"} : SetZapLoggerForCLI(out)
    \/ ApplyDefaults
    \/ Signal
    \/ ListenerRecv
    \/ ListenerStop
    \/ ListenerCancel

NewSpec == NewInit /\ [][NewNext]_vars

\* The call of New with the options that set the identity, the debug flag
\* and the CLI mode, and the signals and the listener that run beside it.
SignalNext ==
    \/ \E v \in Strs : AppName(v)
    \/ \E v \in Strs : Version(v)
    \/ \E v \in Strs : Env(v)
    \/ \E b \in BOOLEAN : Debug(b)
    \/ WithCLIMode
    \/ ApplyDefaults
    \/ Signal
    \/ ListenerRecv
    \/ ListenerStop
    \/ ListenerCancel

SignalSpec == NewInit /\ [][SignalNext]_vars

\* The Go scheduler runs the listener goroutine when it can take a step.
NewFairness ==
    /\ WF_vars(ListenerRecv)
    /\ WF_vars(ListenerStop)
    /\ WF_vars(ListenerCancel)

FairSignalSpec == SignalSpec /\ NewFairness

\* An engine built with logger options, its shutdown round, and the caller's
\* use of SetContext.
EngineNext ==
    \/ SetZapLogger("ok")
    \/ SetZapLoggerForCLI("ok")
    \/ ApplyDefaults
    \/ SetContext(OtherCtx)
    \/ SetLogger(NoLogger)
    \/ newSt.pc = "returned" /\ SetGracefull("mock_nil")
    \/ CancelOther
    \/ Signal
    \/ ListenerRecv
    \/ ListenerStop
    \/ ListenerCancel
    \/ AwaitCtx
    \/ \E n \in Names : RangeStep(n)
    \/ RangeEnd
    \/ WgWait
    \/ \E w \in Waiters : Deliver(w)
    \/ \E n \in Names : HookInvoke(n)
    \/ \E n \in Names, res \in Results : HookReturn(n, res)
    \/ \E w \in Waiters : WaitDone(w)

EngineSpec == NewInit /\ [][EngineNext]_vars

TypeOK ==
    /\ mode \in {"engine", "bare"}
    /\ proc \in {"running", "killed", "crashed"}
    /\ ctxCancelled \in BOOLEAN
    /\ cancelCalls \in 0..MaxCancels
    /\ sigs \in 0..MaxSignals
    /\ sigChan \in 0..1
    /\ notifyOn \in BOOLEAN
    /\ pcListener \in {"none", "select", "stop", "cancel", "exited"}
    /\ functions \in [Names -> Callbacks \cup LoggerCloses \cup {NoFn}]
    /\ regArg \in [Producers -> (Names \X Callbacks) \cup {NoArg}]
    /\ pcReg \in [Producers -> {"idle", "write", "done"}]
    /\ raced \subseteq Producers
    /\ pcAll \in {"waitctx", "range", "wait", "send", "exited"}
    /\ pending \subseteq Names
    /\ wg \in 0..NumNames
    /\ hookPc \in [Names -> {"none", "spawned", "running", "returned"}]
    /\ hookFn \in [Names -> Callbacks \cup LoggerCloses \cup {NoFn}]
    /\ hookLog \in [Names -> {"none", "success", "error"}]
    /\ waiter \in [Waiters -> {"idle", "waiting"}]
    /\ recv \in [Waiters -> 0..MaxRecv]
    /\ atCancel \subseteq Names
    /\ eng \in [appName : Strs \cup {"application"}, appVersion : Strs \cup {"0.1.0"},
                 appEnv : Strs \cup {"development"}, appDebug : BOOLEAN, ctx : Contexts,
                 gracefull : Lifecycles, logger : Loggers \cup {NoLogger}]
    /\ newSt \in [pc : {"options", "returned", "panicked"}, err : {"none", "nil"},
                   fault : {"none", "ctor", "register"}]
    /\ hist \in [name : Strs, version : Strs, env : Strs, cli : BOOLEAN, built : 0..MaxLoggers,
                  ctor : {NoCtorArgs} \cup (Strs \X Strs \X Strs)]
    /\ otherCancelled \in BOOLEAN

\* ------------------------------------------------------------------- claims
Spawned == {n \in Names : hookPc[n] # "none"}
Returned == {n \in Names : hookPc[n] = "returned"}
Waiting == {w \in Waiters : waiter[w] = "waiting"}

\* C1: no value is delivered on the channel returned by Done() until every
\* hook invoked in the shutdown round has returned, whatever the hooks'
\* number, latency or result.
C1_NoDoneBeforeHooksReturn ==
    (pcAll \in {"send", "exited"} \/ sent > 0) => Spawned = Returned

C1_Witness ==
    /\ sent = 1
    /\ Cardinality(Returned) >= 2

\* C2: every hook that is in the registry when the context is cancelled is
\* invoked exactly once in the round: no hook is invoked twice, and when a
\* waiter has received from Done() each of them has been called.
C2_EachHookInvokedOnce ==
    /\ \A n \in Names : calls[n] <= 1
    /\ sent > 0 => \A n \in atCancel : calls[n] = 1

C2_Witness ==
    /\ \E w \in Waiters : recv[w] = 1
    /\ Cardinality(atCancel) >= 2
    /\ \A n \in atCancel : calls[n] = 1

\* C3: after cancellation, when every invoked hook returns (the fairness of
\* HookReturn) and the process is not ended, a goroutine waiting on Done() is
\* eventually handed the completion value; and while no hook is registered
\* no hook work is done.
C3_WaiterEventuallyReleased ==
    /\ (ctxCancelled /\ Waiting # {}) ~> (sent >= 1 \/ proc # "running")
    /\ [](Registered(functions) = {} => (Spawned = {} /\ wg = 0))

C3_Witness ==
    /\ ctxCancelled
    /\ \E w \in Waiters : recv[w] = 1 /\ waiter[w] = "idle"
    /\ Returned # {}

\* C4: when several goroutines wait on Done(), the completion event releases
\* every one of them.
C4_CompletionReleasesAllWaiters ==
    [][sent' = sent + 1 =>
         \A w \in Waiters : waiter[w] = "waiting" => waiter'[w] = "idle"]_vars

\* C5: a hook that returns an error changes nothing but its own goroutine,
\* its log line and the wait-group counter; the barrier still waits for the
\* other hooks of the round, and is still passed, so that the completion
\* value is offered on Done().
C5_ErrorDoesNotStopRound ==
    /\ [][\A n \in Names :
            (hookLog[n] # "error" /\ hookLog'[n] = "error") =>
               /\ UNCHANGED <<engVars, mode, proc, ctxCancelled, regVars, pcAll, pending,
                              rounds, sent, waitVars, hookFn, calls>>
               /\ \A m \in Names \ {n} : hookPc'[m] = hookPc[m] /\ hookLog'[m] = hookLog[m]]_vars
    /\ [](\A n \in Names :
            (hookLog[n] = "error" /\ pcAll \in {"send", "exited"}) => Spawned = Returned)
    /\ (\E n \in Names : hookLog[n] = "error") ~> (pcAll \in {"send", "exited"} \/ proc # "running")

C5_Witness ==
    /\ sent = 1
    /\ \E n, m \in Names : hookLog[n] = "error" /\ hookLog[m] = "success"

\* C6: a Register call whose name is already present returns without
\* touching the registry (a call reaches the write only when its lookup found
\* the name absent), and the round spawns at most one goroutine per name, on
\* the callback stored under that name.
C6_DuplicateRegisterKeepsFirst ==
    [][/\ \A p \in Producers :
            /\ (pcReg[p] = "idle" /\ pcReg'[p] = "done") => functions' = functions
            /\ (pcReg[p] = "idle" /\ pcReg'[p] = "write") => functions[regArg'[p][1]] = NoFn
       /\ \A n \in Names :
            /\ (hookPc[n] = "none" /\ hookPc'[n] # "none") =>
                  (functions[n] # NoFn /\ hookFn'[n] = functions[n])
            /\ calls'[n] <= 1]_vars

C6_Witness ==
    /\ regRet = [val |-> "nil", line |-> 45]
    /\ \A p \in Producers : pcReg[p] = "done"
    /\ \E n \in Names : /\ Registered(functions) = {n}
                        /\ functions[n] = 1
                        /\ hookFn[n] = 1
                        /\ calls[n] = 1
    /\ sent = 1

\* C7: however many signals arrive or cancel calls are made, gracefullAll is
\* entered at most once (exactly once as soon as the shutdown goroutine has
\* left its wait on the context) and at most one value is published on done.
C7_OneRoundOneCompletion ==
    /\ rounds <= 1
    /\ sent <= 1
    /\ pcAll # "waitctx" => rounds = 1
    /\ sent = 1 => pcAll = "exited"

C7_Witness ==
    /\ cancelCalls >= 2 \/ sigs >= 2
    /\ rounds = 1
    /\ sent = 1

\* C8: once the shutdown is complete the channel returned by Done() is
\* closed: a receive started from then on does not block.
C8_ReceiveAfterCompletionDoesNotBlock ==
    [][\A w \in Waiters :
         (pcAll = "exited" /\ waiter[w] = "idle") => waiter'[w] # "waiting"]_vars

\* C9: every Register call returns nil, also for a name already registered.
C9_RegisterReturnsNil ==
    regRet # NoRet => regRet.val = "nil"

C9_Witness ==
    /\ regRet = [val |-> "nil", line |-> 45]
    /\ Registered(functions) # {}

\* C10: with producers calling Register concurrently before shutdown begins,
\* the process does not fail, a call that returns after its write has its
\* name in the registry, and a callback once stored under a name stays.
C10_ConcurrentRegisterSafe ==
    [][~ctxCancelled =>
         /\ proc' # "crashed"
         /\ \A p \in Producers :
              (pcReg[p] = "write" /\ pcReg'[p] = "done") => functions'[regArg[p][1]] # NoFn
         /\ \A n \in Names : functions[n] # NoFn => functions'[n] = functions[n]]_vars

\* C18: the round runs exactly the hooks the registry held when the round
\* began: while the range loop runs, no entry is added to what it will
\* produce, the map is not written and the process does not fail on a
\* concurrent map access.
C18_RoundRunsSnapshot ==
    [][pcAll = "range" =>
         /\ pending' \subseteq pending
         /\ functions' = functions
         /\ proc' # "crashed"]_vars

\* C19: the hooks of a round run independently: whatever the other hooks
\* are doing (also blocked for ever in "running"), the loop can start the next
\* hook, a started hook can be invoked and an invoked hook can return.
C19_HooksIndependent ==
    proc = "running" =>
       \A n \in Names :
          /\ (pcAll = "range" /\ n \in pending) => ENABLED RangeStep(n)
          /\ hookPc[n] = "spawned" => ENABLED HookInvoke(n)
          /\ hookPc[n] = "running" => ENABLED (\E res \in Results : HookReturn(n, res))

C19_Witness ==
    /\ proc = "running"
    /\ pcAll = "wait"
    /\ \E n, m \in Names : hookPc[n] = "running" /\ hookPc[m] = "returned"

\* C20: while the context is not cancelled no hook is invoked: registration
\* alone runs nothing and the round has not started.
C20_NoHookBeforeCancel ==
    ~ctxCancelled =>
       /\ pcAll = "waitctx"
       /\ rounds = 0
       /\ \A n \in Names : hookPc[n] = "none" /\ calls[n] = 0

C20_Witness ==
    /\ ~ctxCancelled
    /\ Cardinality(Registered(functions)) >= 2
    /\ \A p \in Producers : pcReg[p] = "done"

\* C11: after New has returned, a SIGINT or SIGTERM delivered to the process
\* leads to the context returned by Context() being cancelled (unless the
\* process ends first), whatever options New was called with, WithCLIMode
\* and its derived context included.
C11_SignalCancelsContext ==
    (newSt.pc = "returned" /\ sigs > 0) ~> (IsCancelled(EngineContext) \/ proc # "running")

C11_Witness ==
    /\ proc = "running"
    /\ newSt.pc = "returned"
    /\ pcListener = "exited"
    /\ IsCancelled(EngineContext)
    /\ EngineCLIMode
    /\ EngineDebug
    /\ EngineName = "a" /\ EngineVersion = "a" /\ EngineEnv = "a"

\* C12: SetZapLogger and SetZapLoggerForCLI register a logger's close function
\* under "zaplogger" / "zaplogger-cli" in the engine's registry, and when the
\* context is cancelled afterwards, no completion is published before the
\* registered close function has returned.
C12_LoggerCloseBeforeCompletion ==
    /\ [][(eng'.logger # eng.logger /\ eng.gracefull = "real" /\ ~ctxCancelled) =>
             /\ eng'.logger.kind = "zap" => Exists(functions', ZapName)
             /\ eng'.logger.kind = "cli" => Exists(functions', ZapCliName)]_vars
    /\ [](\A n \in {ZapName, ZapCliName} :
             (n \in atCancel /\ (sent > 0 \/ pcAll \in {"send", "exited"})) =>
                 hookPc[n] = "returned" /\ hookFn[n] \in LoggerCloses)

C12_Witness ==
    /\ newSt.pc = "returned"
    /\ atCancel = {ZapName, ZapCliName}
    /\ sent > 0
    /\ hookPc[ZapName] = "returned" /\ hookPc[ZapCliName] = "returned"

\* C13: once Context() returns a cancelled context it does so for ever,
\* whatever engine operation comes next, SetContext included.
C13_ContextStaysCancelled ==
    [][(newSt.pc = "returned" /\ IsCancelled(eng.ctx)) => IsCancelled(eng.ctx)']_vars

\* C14: a failure of the logger constructor or of Register in a logger
\* option ends New by a panic, and whenever New returns its error is nil.
C14_FailureAbortsNew ==
    /\ newSt.fault # "none" => newSt.pc = "panicked"
    /\ newSt.pc = "returned" => newSt.err = "nil"
    /\ newSt.pc = "panicked" => newSt.err = "none"

C14_Witness ==
    /\ newSt.pc = "panicked"
    /\ newSt.fault = "register"
    /\ eng.logger # NoLogger

\* C15: after New, Name(), Version() and Env() are the value of the last
\* option for the field when it is not empty and the default otherwise, and
\* are never empty.
C15_LastOptionOrDefault ==
    newSt.pc = "returned" =>
       /\ EngineName = (IF hist.name # "" THEN hist.name ELSE "application")
       /\ EngineVersion = (IF hist.version # "" THEN hist.version ELSE "0.1.0")
       /\ EngineEnv = (IF hist.env # "" THEN hist.env ELSE "development")
       /\ EngineName # "" /\ EngineVersion # "" /\ EngineEnv # ""

C15_Witness ==
    /\ newSt.pc = "returned"
    /\ EngineName = "a"
    /\ EngineVersion = "0.1.0"
    /\ EngineEnv = "development"

\* C16: SetContext(c) replaces the context returned by Context() and nothing
\* else; the shutdown round is started by the cancellation of the context made
\* in New and by no other, also when c is cancelled.
C16_SetContextFrame ==
    /\ [][(newSt.pc = "returned" /\ eng'.ctx # eng.ctx) =>
             /\ eng' = [eng EXCEPT !.ctx = OtherCtx]
             /\ UNCHANGED <<lifeVars, newSt, hist, otherCancelled>>]_vars
    /\ [](rounds > 0 => ctxCancelled)
    /\ []((ctxCancelled /\ pcAll = "waitctx" /\ proc = "running") => ENABLED AwaitCtx)

C16_Witness ==
    /\ EngineContext = OtherCtx
    /\ otherCancelled
    /\ ~ctxCancelled
    /\ Registered(functions) # {}
    /\ pcAll = "waitctx"

\* C17: after New, CLIMode() is true exactly when WithCLIMode was one of the
\* options.
C17_CLIModeIffOption ==
    newSt.pc = "returned" => (EngineCLIMode <=> hist.cli)

C17_Witness ==
    /\ newSt.pc = "returned"
    /\ EngineCLIMode
    /\ EngineLogger # NoLogger
    /\ EngineName = "a"

\* C21: a signal delivered after the first one was converted into the
\* cancellation does not end the process: the round in progress goes on.
C21_SecondSignalHarmless ==
    [][(ctxCancelled /\ sigs' > sigs) => proc' = "running"]_vars

\* C22: whenever the engine's context is cancelled, the listener has taken
\* its channel out of signal delivery before (signal.Stop precedes cancel)
\* and has exited; it never listens again.
C22_StopBeforeCancel ==
    /\ []((mode = "engine" /\ ctxCancelled) => (~notifyOn /\ pcListener = "exited"))
    /\ [][pcListener = "exited" => pcListener' = "exited"]_vars
    /\ [][~notifyOn => ~notifyOn']_vars

C22_Witness ==
    /\ mode = "engine"
    /\ proc = "running"
    /\ ctxCancelled
    /\ sigs = 1
    /\ pcListener = "exited"
    /\ ~notifyOn

\* C29: a signal that arrives at any time after signal.Notify, also while
\* New is still applying options and the listener has not received yet, is
\* kept in the channel and leads to the cancellation of the engine's context
\* (unless the process ends first).
C29_SignalNotLost ==
    /\ []((sigs > 0 /\ pcListener = "select") => sigChan = 1)
    /\ (sigs > 0) ~> (ctxCancelled \/ proc # "running")

C29_Witness ==
    /\ proc = "running"
    /\ newSt.pc = "options"
    /\ sigs = 1
    /\ sigChan = 0
    /\ ctxCancelled

\* C24: once every hook of the round has returned, the shutdown goroutine
\* terminates, also when no goroutine ever receives from Done().
C24_ShutdownGoroutineTerminates ==
    (pcAll = "send") ~> (pcAll = "exited" \/ proc # "running")

\* C27: a Register call whose write comes after the range loop of the round
\* has finished returns nil and stores the hook (when no other write races
\* with it), and a hook the loop did not start is never invoked afterwards.
RangeFinished == pcAll \in {"wait", "send", "exited"}

C27_LateHookNeverRuns ==
    /\ [][\A p \in Producers :
            (RangeFinished /\ ~MapRace(p) /\ pcReg[p] = "write" /\ pcReg'[p] = "done") =>
                /\ functions'[regArg[p][1]] = regArg[p][2]
                /\ regRet' = [val |-> "nil", line |-> 48]]_vars
    /\ [][\A n \in Names :
            (RangeFinished /\ hookPc[n] = "none") =>
                (hookPc'[n] = "none" /\ calls'[n] = 0)]_vars

C27_Witness ==
    /\ pcAll = "exited"
    /\ \E n \in Names :
          /\ functions[n] # NoFn
          /\ n \notin atCancel
          /\ hookPc[n] = "none"
          /\ calls[n] = 0
    /\ \E m \in Names : m \in atCancel /\ hookPc[m] = "returned"
    /\ \A p \in Producers : pcReg[p] = "done"
    /\ regRet = [val |-> "nil", line |-> 48]

\* C25: when New returns, the logger returned by Logger() is the logger
\* whose close function the registry holds under the option's name, also when
\* a logger option was applied more than once.
C25_RegisteredCloseIsOfLogger ==
    (newSt.pc = "returned" /\ EngineLogger # NoLogger /\ eng.gracefull = "real" /\ ~ctxCancelled) =>
       /\ EngineLogger.kind = "zap" => functions[ZapName] = CloseFn(EngineLogger)
       /\ EngineLogger.kind = "cli" => functions[ZapCliName] = CloseFn(EngineLogger)

\* C26: the name, version and environment SetZapLogger passed to the logger
\* constructor are the ones Name(), Version() and Env() report after New has
\* returned.
C26_CtorArgsAreFinalIdentity ==
    (newSt.pc = "returned" /\ hist.ctor # NoCtorArgs) =>
       hist.ctor = <<EngineName, EngineVersion, EngineEnv>>

\* C28: the context made in New goes from not cancelled to cancelled only in
\* the step in which the listener, having received a signal, calls cancel():
\* no option, no setter, no Register and no hook cancels it.
C28_OnlyListenerCancels ==
    /\ [][IsCancelled(NewCtx)' # IsCancelled(NewCtx) =>
             (pcListener = "cancel" /\ pcListener' = "exited")]_vars
    /\ [](IsCancelled(NewCtx) => sigs > 0)

C28_Witness ==
    /\ ~IsCancelled(NewCtx)
    /\ sigs = 0
    /\ EngineContext = OtherCtx
    /\ otherCancelled
    /\ eng.gracefull = "mock_nil"
    /\ EngineLogger = NoLogger
    /\ Registered(functions) = {ZapName, ZapCliName}

====
